---- MODULE Spec2Model ----
(***************************************************************************)
(* MinecraftLiveEnv (src/gym_MinecraftLive/envs/MinecraftLive_env.py):     *)
(* a gym environment that forwards actions to an agent, polls a directory  *)
(* for the newest screenshot and keeps the steps_beyond_done guard.        *)
(*                                                                         *)
(* Python's None is modelled as the empty set and a present value x as the *)
(* singleton {x}, so that a nullable field always holds a set.  Strings    *)
(* (paths, file names) are sequences of character codes; the separator '/' *)
(* is code 0 and cannot occur in a file name.                              *)
(***************************************************************************)
EXTENDS Integers, Sequences, FiniteSets

\* ---------------------------------------------------------------- bounds
MaxNameLen == 1     \* longest file name
MaxFiles == 2       \* most files the polled directory holds at once
MaxBeyond == 2      \* steps_beyond_done is explored up to this value
MaxVecLen == 2      \* longest action vector a caller passes to step
MaxWarnings == 2    \* the count of warnings since the last reset saturates here

\* ------------------------------------------------------- nullable values
None == {}
Some(x) == {x}
Val(o) == CHOOSE x \in o : TRUE

\* ------------------------------------------------------ strings and paths
Sep == 0
\* File names are written with the two characters 'a' and 'b'.
Chars == {1, 2}
FileNames == UNION {[1..n -> Chars] : n \in 1..MaxNameLen}
Listings == {S \in SUBSET FileNames : Cardinality(S) <= MaxFiles}

\* The values the constructor's screenshot_path argument takes: None, "a", "a/".
ScreenshotPaths == {None, Some(<<1>>), Some(<<1, Sep>>)}
\* The values set_screenshot_history_path is called with: None, "b".
HistoryPaths == {None, Some(<<2>>)}

\* The agents a caller passes to the constructor and to set_agent.
Agents == <<"agent1", "agent2">>
\* The seeds seed is called with.
Seeds == {0, 1}
\* What seeding.np_random draws from entropy when the seed is None: one
\* representative value, no method of the environment reads the generator.
Entropy == {1}
\* The wait count above which render gives up.
RetryLimit == 100
\* How many times in a row Image.open fails on the file before it would
\* succeed; anything above RetryLimit is a file that never decodes in time.
DecodeFailures == {0, 1, RetryLimit - 1, RetryLimit, RetryLimit + 1, RetryLimit + 2}

\* agent.action_spaces: one discrete cardinality per action dimension.
ActionSpaces == <<1, 2>>
\* The action vectors a caller passes; an entry that reaches the cardinality
\* of its dimension, or an entry past the last dimension, is out of range.
ActionVectors == UNION {[1..n -> 0..1] : n \in 0..MaxVecLen}

\* Python's str comparison a < b: the first differing character decides, a
\* proper prefix is smaller.
StrLess(a, b) ==
  \E i \in 1..(Len(b)) :
     /\ \A j \in 1..(i - 1) : j <= Len(a) /\ a[j] = b[j]
     /\ \/ i = Len(a) + 1
        \/ i <= Len(a) /\ a[i] < b[i]

\* A slip of the sort: ascending order.
RECURSIVE SortAscending(_)
SortAscending(files) ==
  IF files = {} THEN <<>>
  ELSE LET first == CHOOSE f \in files : \A g \in files : g = f \/ StrLess(f, g)
       IN  <<first>> \o SortAscending(files \ {first})

\* files.sort(reverse=True) on the listing os.listdir returned.
RECURSIVE SortReverse(_)
SortReverse(files) ==
  IF files = {} THEN <<>>
  ELSE LET first == CHOOSE f \in files : \A g \in files : g = f \/ StrLess(g, f)
       IN  <<first>> \o SortReverse(files \ {first})

\* os.path.join(a, b) of posixpath for one component b.
Join(a, b) ==
  IF b # <<>> /\ b[1] = Sep THEN b
  ELSE IF a = <<>> \/ a[Len(a)] = Sep THEN a \o b
  ELSE a \o <<Sep>> \o b

\* ------------------------------------------------------------------ state
VARIABLES
  screenshot_path,      \* self.screenshot_path
  screenshot_history,   \* self.screenshot_history
  state,                \* self.state
  steps_beyond_done,    \* self.steps_beyond_done
  dir,                  \* names in the directory os.listdir(self.screenshot_path)
                        \* reads (the current directory when the path is None)
  calls,                \* agent capabilities and directory listings invoked by
                        \* the last call of a method, in order
  ret,                  \* what the last call of a method returned or raised
  listed,               \* that call listed the directory and dir has not
                        \* changed since: dir is the list os.listdir returned
  warnings,             \* logger.warn calls since the last reset
  doneSeen,             \* a step since the last reset returned done = True
  polled,               \* a reset or step has completed; and one of them has
                        \* completed after listing a non-empty directory
  agent,                \* self.agent
  np_random,            \* self.np_random, named by the seed that made it
  viewer,               \* self.viewer
  threads,              \* the handles the last step collected in its list
                        \* `threads` whose execution has not finished yet
  doneCount             \* steps since the last reset that returned done = True
                        \* (not counted past MaxBeyond + 1)

\* The fields only seed, set_agent and render write.
aux == <<agent, np_random, viewer>>

vars == <<screenshot_path, screenshot_history, state, steps_beyond_done, dir,
          calls, ret, listed, warnings, doneSeen, polled, agent, np_random,
          viewer, threads, doneCount>>

Call(cap, arg) == [cap |-> cap, arg |-> arg]
\* A call whose answer the caller uses.
Answer(cap, arg, res) == [cap |-> cap, arg |-> arg, res |-> res]

\* __init__(agent, screenshot_path)
Init ==
  /\ screenshot_path \in ScreenshotPaths
  /\ screenshot_history = None
  /\ state = None
  /\ steps_beyond_done = None
  /\ dir \in Listings
  /\ calls = <<>>
  /\ ret = [op |-> "__init__", raised |-> "none"]
  /\ listed = FALSE
  /\ warnings = 0
  /\ doneSeen = FALSE
  /\ polled = [completed |-> FALSE, nonEmpty |-> FALSE]
  /\ agent = Agents[1]
  /\ np_random \in Entropy
  /\ viewer = None
  /\ threads = {}
  /\ doneCount = 0

\* set_screenshot_history_path(history)
set_screenshot_history_path(history) ==
  /\ screenshot_history' = history
  /\ calls' = <<>>
  /\ ret' = [op |-> "set_screenshot_history_path", raised |-> "none"]
  /\ listed' = FALSE
  /\ UNCHANGED <<screenshot_path, state, steps_beyond_done, dir, warnings,
                 doneSeen, polled, aux, threads, doneCount>>

\* agent.actions[index][action_item]: the opaque identifier of choice
\* action_item in dimension index.
Actions(index, action_item) == <<index, action_item>>

\* action[i] selects an existing entry of agent.actions (i counts from 1 here,
\* enumerate's index is i - 1).
InRange(action, i) == i <= Len(ActionSpaces) /\ action[i] < ActionSpaces[i]

\* How many leading entries of the action vector the loop of step dispatches
\* before agent.actions[index][action_item] fails, all of them if none fails.
Dispatched(action) ==
  LET bad == {i \in 1..Len(action) : ~InRange(action, i)}
  IN  IF bad = {} THEN Len(action)
      ELSE (CHOOSE i \in bad : \A j \in bad : i <= j) - 1

\* A slip of the loop: the vector is walked from its last entry.
PerformCallsReversed(action) ==
  LET n == Dispatched(action)
  IN  [i \in 1..n |-> Call("perform_action", Actions(n - i, action[n - i + 1]))]

\* The perform_action calls of the loop of step, in order.
PerformCalls(action) ==
  [i \in 1..Dispatched(action) |->
      Call("perform_action", Actions(i - 1, action[i]))]

\* The executions the loop of step has started.
Handles(action) ==
  {Actions(i - 1, action[i]) : i \in 1..Dispatched(action)}

\* A slip of step: the commented-out join loop is live, every thread has
\* finished when step goes on.
StillRunningJoined(handles) == {{}}

\* What may still be threads of the threads step collected when it goes on to
\* poll: any of them, step joins none.
StillRunning(handles) == SUBSET handles

\* A slip of get_state: an empty listing clears the observation.
GetStateClearOnEmpty(path, st, files) ==
  LET log == <<Call("look", <<>>), Call("listdir", <<>>)>>
  IN  IF Cardinality(files) > 0
      THEN IF path = None
           THEN [raised |-> "TypeError", state |-> st, calls |-> log]
           ELSE [raised |-> "none",
                 state |-> Some(Join(Val(path), SortReverse(files)[1])),
                 calls |-> log]
      ELSE [raised |-> "none", state |-> None, calls |-> log]

\* A slip of get_state: the observation is taken once and never refreshed.
GetStateKeepFirst(path, st, files) ==
  LET log == <<Call("look", <<>>), Call("listdir", <<>>)>>
  IN  IF Cardinality(files) > 0 /\ st = None
      THEN IF path = None
           THEN [raised |-> "TypeError", state |-> st, calls |-> log]
           ELSE [raised |-> "none",
                 state |-> Some(Join(Val(path), SortReverse(files)[1])),
                 calls |-> log]
      ELSE [raised |-> "none", state |-> st, calls |-> log]

\* get_state(): look, list the directory, move state to the first name of the
\* reverse-sorted listing if there is one.  os.path.join raises TypeError on a
\* None path.
GetState(path, st, files) ==
  LET log == <<Call("look", <<>>), Call("listdir", <<>>)>>
  IN  IF Cardinality(files) > 0
      THEN IF path = None
           THEN [raised |-> "TypeError", state |-> st, calls |-> log]
           ELSE [raised |-> "none",
                 state |-> Some(Join(Val(path), SortReverse(files)[1])),
                 calls |-> log]
      ELSE [raised |-> "none", state |-> st, calls |-> log]

\* A slip of the branches: the step on which the agent dies earns nothing.
TransitionPenalizeDeath(sbd, done) ==
  IF ~done
  THEN [steps_beyond_done |-> sbd, reward |-> 1, warn |-> FALSE]
  ELSE IF sbd = None
  THEN [steps_beyond_done |-> Some(0), reward |-> 0, warn |-> FALSE]
  ELSE [steps_beyond_done |-> Some(Val(sbd) + 1), reward |-> 0,
        warn |-> (Val(sbd) = 0)]

\* A slip of the branches: a step past the end keeps its reward.
TransitionRewardBeyond(sbd, done) ==
  IF ~done
  THEN [steps_beyond_done |-> sbd, reward |-> 1, warn |-> FALSE]
  ELSE IF sbd = None
  THEN [steps_beyond_done |-> Some(0), reward |-> 1, warn |-> FALSE]
  ELSE [steps_beyond_done |-> Some(Val(sbd) + 1), reward |-> 1,
        warn |-> (Val(sbd) = 0)]

\* A slip of the branches: a live agent clears the counter.
TransitionClearOnAlive(sbd, done) ==
  IF ~done
  THEN [steps_beyond_done |-> None, reward |-> 1, warn |-> FALSE]
  ELSE IF sbd = None
  THEN [steps_beyond_done |-> Some(0), reward |-> 1, warn |-> FALSE]
  ELSE [steps_beyond_done |-> Some(Val(sbd) + 1), reward |-> 0,
        warn |-> (Val(sbd) = 0)]

\* A slip of the branches: the warning is not limited to the first step past
\* the end.
TransitionWarnEveryTime(sbd, done) ==
  IF ~done
  THEN [steps_beyond_done |-> sbd, reward |-> 1, warn |-> FALSE]
  ELSE IF sbd = None
  THEN [steps_beyond_done |-> Some(0), reward |-> 1, warn |-> FALSE]
  ELSE [steps_beyond_done |-> Some(Val(sbd) + 1), reward |-> 0,
        warn |-> TRUE]

\* A slip of the branches: a live agent starts the count over.
TransitionRestartOnAlive(sbd, done) ==
  IF ~done
  THEN [steps_beyond_done |-> IF sbd = None THEN None ELSE Some(0),
        reward |-> 1, warn |-> FALSE]
  ELSE IF sbd = None
  THEN [steps_beyond_done |-> Some(0), reward |-> 1, warn |-> FALSE]
  ELSE [steps_beyond_done |-> Some(Val(sbd) + 1), reward |-> 0,
        warn |-> (Val(sbd) = 0)]

\* A slip of the branches: every step past the end is counted, dead or alive.
TransitionCountAlive(sbd, done) ==
  IF ~done
  THEN [steps_beyond_done |-> IF sbd = None THEN None ELSE Some(Val(sbd) + 1),
        reward |-> 1, warn |-> FALSE]
  ELSE IF sbd = None
  THEN [steps_beyond_done |-> Some(0), reward |-> 1, warn |-> FALSE]
  ELSE [steps_beyond_done |-> Some(Val(sbd) + 1), reward |-> 0,
        warn |-> (Val(sbd) = 0)]

\* The reward and bookkeeping branches of step.
Transition(sbd, done) ==
  IF ~done
  THEN [steps_beyond_done |-> sbd, reward |-> 1, warn |-> FALSE]
  ELSE IF sbd = None
  THEN [steps_beyond_done |-> Some(0), reward |-> 1, warn |-> FALSE]
  ELSE [steps_beyond_done |-> Some(Val(sbd) + 1), reward |-> 0,
        warn |-> (Val(sbd) = 0)]

\* A slip of the assertions: only the first path is required.
ConfiguredPathOnly(path, history) == path # None

\* The two assertions that open step.
Configured(path, history) == path # None /\ history # None

\* step(action) when one of its two assertions fails.
StepUnconfigured(action) ==
  /\ ~Configured(screenshot_path, screenshot_history)
  /\ calls' = <<>>
  /\ ret' = [op |-> "step", raised |-> "AssertionError"]
  /\ listed' = FALSE
  /\ UNCHANGED <<screenshot_path, screenshot_history, state, steps_beyond_done,
                 dir, warnings, doneSeen, polled, aux, threads, doneCount>>

\* step(action) when agent.actions[index][action_item] fails in the loop.
StepOutOfRange(action) ==
  /\ Configured(screenshot_path, screenshot_history)
  /\ Dispatched(action) < Len(action)
  /\ calls' = PerformCalls(action)
  /\ ret' = [op |-> "step", raised |-> "LookupError"]
  /\ listed' = FALSE
  /\ \E r \in StillRunning(Handles(action)) : threads' = r
  /\ UNCHANGED <<screenshot_path, screenshot_history, state, steps_beyond_done,
                 dir, warnings, doneSeen, polled, aux, doneCount>>

\* step(action) threads to its return; dead is what agent.is_dead answers.
StepReturns(action, dead) ==
  /\ Configured(screenshot_path, screenshot_history)
  /\ Dispatched(action) = Len(action)
  /\ LET g == GetState(screenshot_path, state, dir)
         t == Transition(steps_beyond_done, dead)
     IN  /\ t.steps_beyond_done # None => Val(t.steps_beyond_done) <= MaxBeyond
         /\ \E r \in StillRunning(Handles(action)) : threads' = r
         /\ steps_beyond_done' = t.steps_beyond_done
         /\ warnings' = IF t.warn /\ warnings < MaxWarnings
                        THEN warnings + 1 ELSE warnings
         /\ doneSeen' = (doneSeen \/ dead)
         /\ doneCount' = IF dead /\ doneCount <= MaxBeyond
                         THEN doneCount + 1 ELSE doneCount
         /\ state' = g.state
         /\ calls' = PerformCalls(action) \o g.calls
                       \o <<Answer("is_dead", g.state, dead)>>
                       \o (IF t.warn THEN <<Call("logger.warn", <<>>)>> ELSE <<>>)
         /\ ret' = [op |-> "step", raised |-> "none", obs |-> g.state,
                    reward |-> t.reward, done |-> dead, info |-> <<>>]
         /\ polled' = [completed |-> TRUE,
                       nonEmpty |-> (polled.nonEmpty \/ dir # {})]
  /\ listed' = TRUE
  /\ UNCHANGED <<screenshot_path, screenshot_history, dir, aux>>

step(action, dead) ==
  \/ StepUnconfigured(action)
  \/ StepOutOfRange(action)
  \/ StepReturns(action, dead)

\* A slip of reset: respawn without looking at state.
resetAlwaysRespawns ==
  LET g == GetState(screenshot_path, state, dir)
  IN  /\ steps_beyond_done' = None
      /\ state' = g.state
      /\ calls' = <<Call("respawn", <<>>)>> \o g.calls
      /\ ret' = IF g.raised = "none"
                THEN [op |-> "reset", raised |-> "none", obs |-> g.state]
                ELSE [op |-> "reset", raised |-> g.raised]
      /\ listed' = TRUE
      /\ warnings' = 0
      /\ doneSeen' = FALSE
      /\ doneCount' = 0
      /\ polled' = IF g.raised = "none"
                   THEN [completed |-> TRUE,
                         nonEmpty |-> (polled.nonEmpty \/ dir # {})]
                   ELSE polled
      /\ UNCHANGED <<screenshot_path, screenshot_history, dir, aux, threads>>

\* A slip of reset: the counter survives.
resetKeepsCounter ==
  LET g == GetState(screenshot_path, state, dir)
  IN  /\ UNCHANGED steps_beyond_done
      /\ state' = g.state
      /\ calls' = (IF state # None THEN <<Call("respawn", <<>>)>> ELSE <<>>)
                    \o g.calls
      /\ ret' = IF g.raised = "none"
                THEN [op |-> "reset", raised |-> "none", obs |-> g.state]
                ELSE [op |-> "reset", raised |-> g.raised]
      /\ listed' = TRUE
      /\ warnings' = 0
      /\ doneSeen' = FALSE
      /\ doneCount' = 0
      /\ polled' = IF g.raised = "none"
                   THEN [completed |-> TRUE,
                         nonEmpty |-> (polled.nonEmpty \/ dir # {})]
                   ELSE polled
      /\ UNCHANGED <<screenshot_path, screenshot_history, dir, aux, threads>>

\* reset()
reset ==
  LET g == GetState(screenshot_path, state, dir)
  IN  /\ steps_beyond_done' = None
      /\ state' = g.state
      /\ calls' = (IF state # None THEN <<Call("respawn", <<>>)>> ELSE <<>>)
                    \o g.calls
      /\ ret' = IF g.raised = "none"
                THEN [op |-> "reset", raised |-> "none", obs |-> g.state]
                ELSE [op |-> "reset", raised |-> g.raised]
      /\ listed' = TRUE
      /\ warnings' = 0
      /\ doneSeen' = FALSE
      /\ doneCount' = 0
      /\ polled' = IF g.raised = "none"
                   THEN [completed |-> TRUE,
                         nonEmpty |-> (polled.nonEmpty \/ dir # {})]
                   ELSE polled
      /\ UNCHANGED <<screenshot_path, screenshot_history, dir, aux, threads>>

\* The external capture mechanism writes a screenshot into the directory or
\* removes one from it.
Capture ==
  /\ \E f \in FileNames :
        \/ f \notin dir /\ Cardinality(dir) < MaxFiles /\ dir' = dir \cup {f}
        \/ f \in dir /\ dir' = dir \ {f}
  /\ listed' = FALSE
  /\ UNCHANGED <<screenshot_path, screenshot_history, state, steps_beyond_done,
                 calls, ret, warnings, doneSeen, polled, aux, threads,
                 doneCount>>

\* An execution that perform_action started finishes in the agent.
ActionCompletes ==
  /\ \E h \in threads : threads' = threads \ {h}
  /\ UNCHANGED <<screenshot_path, screenshot_history, state, steps_beyond_done,
                 dir, calls, ret, listed, warnings, doneSeen, polled, aux,
                 doneCount>>

\* A slip of set_agent: a new agent starts from a clean observation.
set_agentResets(a) ==
  /\ agent' = a
  /\ state' = None
  /\ steps_beyond_done' = None
  /\ calls' = <<>>
  /\ ret' = [op |-> "set_agent", raised |-> "none"]
  /\ listed' = FALSE
  /\ UNCHANGED <<screenshot_path, screenshot_history, dir, warnings, doneSeen,
                 polled, np_random, viewer, threads, doneCount>>

\* set_agent(agent)
set_agent(a) ==
  /\ agent' = a
  /\ calls' = <<>>
  /\ ret' = [op |-> "set_agent", raised |-> "none"]
  /\ listed' = FALSE
  /\ UNCHANGED <<screenshot_path, screenshot_history, state, steps_beyond_done,
                 dir, warnings, doneSeen, polled, np_random, viewer, threads,
                 doneCount>>

\* get_agent()
get_agent ==
  /\ calls' = <<>>
  /\ ret' = [op |-> "get_agent", raised |-> "none", value |-> agent]
  /\ listed' = FALSE
  /\ UNCHANGED <<screenshot_path, screenshot_history, state, steps_beyond_done,
                 dir, warnings, doneSeen, polled, aux, threads, doneCount>>

\* seed(seed): a None seed is replaced by one drawn from entropy.
seed(sd) ==
  /\ \E drawn \in (IF sd = None THEN Entropy ELSE sd) :
        /\ np_random' = drawn
        /\ ret' = [op |-> "seed", raised |-> "none", value |-> <<drawn>>]
  /\ calls' = <<>>
  /\ listed' = FALSE
  /\ UNCHANGED <<screenshot_path, screenshot_history, state, steps_beyond_done,
                 dir, warnings, doneSeen, polled, agent, viewer, threads,
                 doneCount>>

\* The retry loop of render from a given wait_count, on a file whose first
\* `failures` opens fail: im is whether an open succeeded, attempts how many
\* opens were made, wait_count the sleeps.
RECURSIVE RenderLoop(_, _)
RenderLoop(wait_count, failures) ==
  IF wait_count >= failures
  THEN [im |-> TRUE, attempts |-> wait_count + 1, wait_count |-> wait_count]
  ELSE IF wait_count + 1 > RetryLimit
  THEN [im |-> FALSE, attempts |-> wait_count + 1,
        wait_count |-> wait_count + 1]
  ELSE RenderLoop(wait_count + 1, failures)

\* render(mode)
render(failures) ==
  /\ viewer' = IF viewer = None THEN Some("SimpleImageViewer") ELSE viewer
  /\ ret' = IF state = None
            THEN [op |-> "render", raised |-> "none", value |-> "placeholder",
                  attempts |-> 0, wait_count |-> 0, failures |-> failures]
            ELSE LET l == RenderLoop(0, failures)
                 IN  [op |-> "render", raised |-> "none",
                      value |-> IF l.im THEN "image" ELSE "array(None)",
                      attempts |-> l.attempts, wait_count |-> l.wait_count,
                      failures |-> failures]
  /\ calls' = <<>>
  /\ listed' = FALSE
  /\ UNCHANGED <<screenshot_path, screenshot_history, state, steps_beyond_done,
                 dir, warnings, doneSeen, polled, agent, np_random, threads,
                 doneCount>>

Next ==
  \/ \E history \in HistoryPaths : set_screenshot_history_path(history)
  \/ \E action \in ActionVectors, dead \in BOOLEAN : step(action, dead)
  \/ reset
  \/ Capture
  \/ ActionCompletes

Spec == Init /\ [][Next]_vars

\* Every method of the environment.
NextAll ==
  \/ Next
  \/ \E a \in {Agents[i] : i \in DOMAIN Agents} : set_agent(a)
  \/ get_agent
  \/ \E sd \in {None} \cup {Some(n) : n \in Seeds} : seed(sd)
  \/ \E failures \in DecodeFailures : render(failures)

SpecAll == Init /\ [][NextAll]_vars

\* Steps and the threads of the agent they start, on a directory that does
\* not change.
NextSteps ==
  \/ \E history \in HistoryPaths : set_screenshot_history_path(history)
  \/ \E action \in ActionVectors, dead \in BOOLEAN : step(action, dead)
  \/ ActionCompletes

SpecSteps == Init /\ [][NextSteps]_vars
\* --------------------------------------------------------------- claims

\* The last call was a step that ran to its return.
StepReturned == ret.op = "step" /\ ret.raised = "none"

\* This transition is a step running to its return, or a reset: the call
\* listed the directory, and it is not a thread of the agent finishing after
\* such a call.
StepJustReturned == listed' /\ StepReturned' /\ ~ActionCompletes
ResetJustRan == listed' /\ ret'.op = "reset" /\ ~ActionCompletes

\* The last call ran get_state (a returning step, or a reset) and the
\* directory still is what that call listed.
PolledNow == listed /\ (StepReturned \/ ret.op = "reset")

\* The final component of a path, and the directory part before it.
LastSep(p) ==
  LET seps == {i \in 1..Len(p) : p[i] = Sep}
  IN  IF seps = {} THEN 0 ELSE CHOOSE i \in seps : \A j \in seps : j <= i
Basename(p) == SubSeq(p, LastSep(p) + 1, Len(p))
Dirname(p) == SubSeq(p, 1, LastSep(p) - 1)
Stripped(p) == IF p # <<>> /\ p[Len(p)] = Sep THEN SubSeq(p, 1, Len(p) - 1) ELSE p

\* Path p names the greatest file of the listing files inside directory d.
NamesGreatest(p, d, files) ==
  /\ Basename(p) \in files
  /\ \A g \in files : ~StrLess(Basename(p), g)
  /\ Dirname(p) = Stripped(d)

Warned(log) == {i \in DOMAIN log : log[i].cap = "logger.warn"}
Respawns(log) == {i \in DOMAIN log : log[i].cap = "respawn"}

\* C1: every step that returns follows the transition table: agent not dead,
\* reward 1 and steps_beyond_done unchanged whatever its value; agent dead and
\* steps_beyond_done null, reward 1 and steps_beyond_done becomes 0; agent dead
\* and steps_beyond_done n >= 0, reward 0 and steps_beyond_done becomes n+1.
C1_TransitionTable ==
  [][ StepJustReturned =>
        /\ ~ret'.done =>
             ret'.reward = 1 /\ steps_beyond_done' = steps_beyond_done
        /\ (ret'.done /\ steps_beyond_done = None) =>
             ret'.reward = 1 /\ steps_beyond_done' = Some(0)
        /\ (ret'.done /\ steps_beyond_done # None) =>
             /\ ret'.reward = 0
             /\ steps_beyond_done' = Some(Val(steps_beyond_done) + 1) ]_vars

\* A step on which the agent was dead returned with the counter already past 0.
C1_Witness ==
  StepReturned /\ ret.done /\ ret.reward = 0 /\ steps_beyond_done = Some(2)

\* The last call was the step on which the agent died: it returned done with
\* steps_beyond_done moving from null to 0.
JustDied ==
  StepReturned /\ ret.done /\ ret.reward = 1 /\ steps_beyond_done = Some(0)

\* C2 as stated: the step after the one on which the agent died yields reward
\* 0 and steps_beyond_done 1 whatever is_dead answers on it.
C2_AnyIsDead ==
  [][ (JustDied /\ StepJustReturned) =>
        ret'.reward = 0 /\ steps_beyond_done' = Some(1) ]_vars

\* C2 amended: the step after the one on which the agent died yields reward 0
\* and steps_beyond_done 1 when is_dead answers true on it, and reward 1 with
\* steps_beyond_done still 0 when is_dead answers false.
C2_ByIsDead ==
  [][ (JustDied /\ StepJustReturned) =>
        IF ret'.done
        THEN ret'.reward = 0 /\ steps_beyond_done' = Some(1)
        ELSE ret'.reward = 1 /\ steps_beyond_done' = Some(0) ]_vars

\* The step after the death step has returned with the agent still dead.
C2_Witness ==
  /\ StepReturned /\ ret.done /\ ret.reward = 0
  /\ steps_beyond_done = Some(1) /\ warnings = 1

\* C3: steps_beyond_done is null exactly when no step since the last reset (or
\* since construction) has returned done = true.
C3_NullIffNeverDone == (steps_beyond_done = None) <=> ~doneSeen

\* A step on which the agent is alive again returned after an earlier death.
C3_Witness ==
  StepReturned /\ ~ret.done /\ doneSeen /\ steps_beyond_done = Some(1)

\* C4: a step made while screenshot_path or screenshot_history is null fails
\* with the assertion error, invokes no agent capability and leaves state and
\* steps_beyond_done as they were.
C4_UnconfiguredStepFails ==
  /\ []( (ret.op = "step" /\ (screenshot_path = None \/ screenshot_history = None))
           => ret.raised = "AssertionError" /\ calls = <<>> )
  /\ [][ (ret'.op = "step" /\ ret'.raised = "AssertionError") =>
           /\ calls' = <<>>
           /\ state' = state
           /\ steps_beyond_done' = steps_beyond_done ]_vars

\* A step failed on the history path with an observation and a counter in place.
C4_Witness ==
  /\ ret.op = "step" /\ ret.raised = "AssertionError"
  /\ screenshot_path # None /\ screenshot_history = None
  /\ state # None /\ steps_beyond_done # None

\* C5: get_state, in step and in reset, moves state to the path of the
\* greatest file name of a non-empty listing of the screenshot directory,
\* leaves state as it was on an empty listing without raising, and returns
\* the resulting state.
C5_GetState ==
  [][ (StepJustReturned \/ ResetJustRan) =>
        IF dir = {}
        THEN ret'.raised = "none" /\ state' = state /\ ret'.obs = state'
        ELSE screenshot_path # None =>
               /\ ret'.raised = "none"
               /\ state' # None
               /\ NamesGreatest(Val(state'), Val(screenshot_path), dir)
               /\ ret'.obs = state' ]_vars

\* A step polled a directory of two files and returned the greater one.
C5_Witness ==
  /\ listed /\ StepReturned /\ ret.obs = state
  /\ \E f \in dir, g \in dir : StrLess(f, g) /\ Basename(Val(state)) = g

\* C6 as stated: once a reset or a step has completed, state is non-null.
C6_NonNullAfterCall == polled.completed => state # None

\* C6 amended: once a reset or a step has completed after listing a non-empty
\* screenshot directory, state is non-null.
C6_NonNullAfterNonEmptyPoll == polled.nonEmpty => state # None

\* The observation outlived its file: the last poll found the directory empty.
C6_Witness == polled.nonEmpty /\ PolledNow /\ dir = {} /\ state # None

\* C7 as stated: once state is non-null, at the end of every poll it names
\* the greatest file present in the directory at that poll.
C7_AlwaysNewest ==
  (PolledNow /\ state # None) =>
     NamesGreatest(Val(state), Val(screenshot_path), dir)

\* C7 amended: once state is non-null, at the end of every poll that finds
\* the directory non-empty it names the greatest file present at that poll.
C7_NewestWhenNonEmpty ==
  (PolledNow /\ state # None /\ dir # {}) =>
     NamesGreatest(Val(state), Val(screenshot_path), dir)

\* A reset that found an earlier observation polled a directory of two files.
C7_Witness ==
  /\ listed /\ ret.op = "reset" /\ Respawns(calls) # {}
  /\ Cardinality(dir) = 2 /\ state # None

\* C8: a reset on a null state does not invoke respawn; a reset on a non-null
\* state invokes it exactly once, before the look and the directory listing.
C8_RespawnOnReset ==
  [][ ResetJustRan =>
        /\ state = None => Respawns(calls') = {}
        /\ state # None =>
             /\ Cardinality(Respawns(calls')) = 1
             /\ \A i \in Respawns(calls'), j \in DOMAIN calls' :
                   calls'[j].cap \in {"look", "listdir"} => i < j
        /\ \E j \in DOMAIN calls' : calls'[j].cap = "look"
        /\ \E j \in DOMAIN calls' : calls'[j].cap = "listdir" ]_vars

\* A reset on an existing observation has respawned, looked and listed.
C8_Witness ==
  /\ ret.op = "reset" /\ Len(calls) = 3
  /\ calls[1].cap = "respawn" /\ calls[2].cap = "look"

\* C9: reset leaves steps_beyond_done null, and on a non-empty screenshot
\* directory it returns a non-null observation equal to the new state.
C9_Reset ==
  /\ [](ret.op = "reset" => steps_beyond_done = None)
  /\ [][ ResetJustRan =>
           /\ steps_beyond_done' = None
           /\ (screenshot_path # None /\ dir # {}) =>
                /\ ret'.raised = "none"
                /\ ret'.obs # None
                /\ ret'.obs = state' ]_vars

\* A reset returned the observation of a non-empty directory.
C9_Witness ==
  /\ ret.op = "reset" /\ ret.raised = "none" /\ listed /\ dir # {}
  /\ ret.obs # None /\ steps_beyond_done = None

\* C10: between two resets the warning is emitted at most once, exactly on the
\* step that moves steps_beyond_done from 0 to 1, and that step returns a
\* well-formed tuple with reward 0.
C10_WarnOnce ==
  /\ [](warnings <= 1)
  /\ [](ret.op # "step" => Warned(calls) = {})
  /\ [][ StepJustReturned =>
           /\ Cardinality(Warned(calls')) <= 1
           /\ Warned(calls') # {} <=>
                (steps_beyond_done = Some(0) /\ steps_beyond_done' = Some(1))
           /\ Warned(calls') # {} =>
                /\ ret'.reward = 0
                /\ ret'.done \in BOOLEAN
                /\ ret'.info = <<>>
                /\ ret'.obs = state' ]_vars

\* The step that emitted the warning has returned.
C10_Witness == StepReturned /\ Warned(calls) # {} /\ warnings = 1

\* C11: a step that returns calls perform_action once per entry of the action
\* vector, in index order, with agent.actions[i][action[i]], then look once,
\* then lists the directory, then calls is_dead once on the state that listing
\* produced; it returns that answer as done, the state as observation and an
\* empty info.
C11_StepOrder ==
  [][ StepJustReturned => \A a \in ActionVectors, d \in BOOLEAN :
        StepReturns(a, d) =>
          LET n == Len(a)
              Caps(c) == {i \in DOMAIN calls' : calls'[i].cap = c}
          IN  /\ Len(calls') >= n + 3
              /\ \A i \in 1..n :
                    calls'[i] = Call("perform_action", Actions(i - 1, a[i]))
              /\ Caps("perform_action") = 1..n
              /\ Caps("look") = {n + 1}
              /\ Caps("listdir") = {n + 2}
              /\ Caps("is_dead") = {n + 3}
              /\ calls'[n + 3].arg = state'
              /\ calls'[n + 3].res = d
              /\ ret'.done = calls'[n + 3].res
              /\ ret'.obs = state'
              /\ ret'.info = <<>> ]_vars

\* A step on a two-entry vector returned done after the five calls.
C11_Witness ==
  /\ StepReturned /\ listed /\ ret.done /\ Len(calls) >= 5
  /\ calls[1].cap = "perform_action" /\ calls[2].cap = "perform_action"
  /\ calls[1].arg # calls[2].arg
  /\ calls[5].cap = "is_dead"

C13_AtMost100Attempts ==
  ret.op = "render" =>
     /\ ret.raised = "none"
     /\ ret.attempts <= RetryLimit
     /\ ret.value = "image" => ret.attempts = ret.failures + 1

\* C14: only reset clears or lowers steps_beyond_done; no step does, the
\* steps on which the agent is alive again after a death included.
C14_OnlyResetClears ==
  [][ ( /\ steps_beyond_done # None
        /\ \/ steps_beyond_done' = None
           \/ Val(steps_beyond_done') < Val(steps_beyond_done) )
      => (listed' /\ ret'.op = "reset") ]_vars

\* A step on a live agent returned with the counter still at 2.
C14_Witness ==
  StepReturned /\ listed /\ ~ret.done /\ steps_beyond_done = Some(2)

\* C15: seed, render, set_agent, get_agent and set_screenshot_history_path
\* change neither state nor steps_beyond_done and invoke no agent capability;
\* a change of state or steps_beyond_done is the work of step or reset.
C15_Frame ==
  /\ [][ ret'.op \in {"seed", "render", "set_agent", "get_agent",
                      "set_screenshot_history_path"}
         => /\ state' = state
            /\ steps_beyond_done' = steps_beyond_done
            /\ calls' = <<>> ]_vars
  /\ [][ (state' # state \/ steps_beyond_done' # steps_beyond_done)
         => (listed' /\ ret'.op \in {"step", "reset"}) ]_vars

\* render decoded a file while an observation and a counter were in place.
C15_Witness ==
  /\ ret.op = "render" /\ ret.value = "image" /\ ret.attempts > 1
  /\ state # None /\ steps_beyond_done # None /\ agent = Agents[2]

\* C16: a non-null steps_beyond_done is one less than the number of steps
\* since the last reset that returned done = true.
C16_CountsDoneSteps ==
  steps_beyond_done # None => Val(steps_beyond_done) = doneCount - 1

\* A step on a live agent returned after two done steps and was not counted.
C16_Witness ==
  StepReturned /\ ~ret.done /\ doneCount = 2 /\ steps_beyond_done = Some(1)

\* C17: a non-null state never becomes null again, whatever is called and
\* however the directory changes, so every reset after the first observation
\* invokes respawn.
C17_StateStaysNonNull ==
  /\ [][ state # None => state' # None ]_vars
  /\ [][ (state # None /\ ResetJustRan)
         => Respawns(calls') # {} ]_vars

\* A reset on an emptied directory respawned and kept the old observation,
\* after render had been called.
C17_Witness ==
  /\ ret.op = "reset" /\ listed /\ dir = {} /\ viewer # None
  /\ state # None /\ Respawns(calls) # {}
====
